---- MODULE Spec2Model ----
(***************************************************************************)
(* Model of the wikisearch clustering toolset (src/toolset/clustering.py). *)
(*                                                                         *)
(* Five specifications share the variables below:                          *)
(*   SpecTok  the pure function tokenize applied to bounded texts;          *)
(*   Spec     extract_tfidf and the two-layer ClusterMaker.kmeans over     *)
(*            corpora of about Layer1Clusters documents;                   *)
(*   SpecHac  extract_tfidf and ClusterMaker.hac over small corpora, with  *)
(*            every merge tree the linkage can return;                     *)
(*   SpecVocab   Corpus.get_vocabulary (src/toolset.py) over small corpora;*)
(*   SpecFormat  Corpus.format (src/toolset.py) over small dumps.          *)
(*                                                                         *)
(* An optional value (Python's None or a value) is a sequence of length    *)
(* 0 or 1.  A text is a sequence of characters.                            *)
(***************************************************************************)
EXTENDS Integers, Sequences, FiniteSets, TLC

VARIABLES
    text,      \* tokenize: the input string
    breaks,    \* tokenize: the sentence boundaries the Punkt model decided on
    tokens,    \* tokenize: the returned list, None before the call
    files,     \* the working directory: artifact name -> optional content
    call,      \* the last ClusterMaker call: its arguments and its outcome
    documents, \* Corpus: the texts of the files of document_paths, in order
    vocabulary,\* Corpus.get_vocabulary: the returned Series, None before
    dump,      \* Corpus.format: the folders of the dump, each a list of files
    sub_size,  \* Corpus.format: its argument, None or an integer
    formatted  \* Corpus.format: the document files written, None before

corpvars == <<documents, vocabulary, dump, sub_size, formatted>>

vars == <<text, breaks, tokens, files, call, corpvars>>

None == <<>>
Some(x) == <<x>>

\* The Corpus variables while no Corpus method is modelled.
CorpusIdle ==
    /\ documents = <<>>
    /\ vocabulary = None
    /\ dump = <<>>
    /\ sub_size = None
    /\ formatted = None

Min(a, b) == IF a <= b THEN a ELSE b

(***************************************************************************)
(* Bounds of the model.                                                    *)
(***************************************************************************)
MaxLen == 4         \* longest text given to tokenize
ExtraDocs == 1      \* largest corpus for kmeans: Layer1Clusters + ExtraDocs
MaxFeats == 2       \* most features surviving pruning in a kmeans corpus
MaxSeed == 1        \* random states of KMeans: 0..MaxSeed
MaxHacDocs == 4     \* largest corpus for hac
MaxZero == 1        \* most all-zero rows in a hac matrix
MaxCorpusDocs == 2  \* most documents of a corpus given to get_vocabulary
MaxCorpusWords == 3 \* most words in all the documents of such a corpus
MaxFolders == 2     \* most folders of a dump given to format
MaxFiles == 1       \* most files of a folder of the dump
MaxFileDocs == 2    \* most <doc> elements of a file of the dump
MaxSub == 3         \* largest integer sub_size

(***************************************************************************)
(* tokenize (clustering.py 17-35, the same code as toolset.py 29-39).      *)
(*                                                                         *)
(* Characters: an ASCII lower-case letter, an ASCII upper-case letter, a   *)
(* digit, the full stop, the blank, and a letter outside ASCII in both     *)
(* cases ("OMEGA" and "omega" stand for U+03A9 and U+03C9).                *)
(***************************************************************************)
Chars == {"a", "B", "7", ".", " ", "OMEGA"}

\* str.lower(), line 29: Unicode aware.
Lower(c) ==
    CASE c = "B" -> "b"
      [] c = "OMEGA" -> "omega"
      [] OTHER -> c

LowerWord(w) == [i \in DOMAIN w |-> Lower(w[i])]

\* re.search('[a-zA-Z]', token), line 33: the class holds ASCII letters only.
AsciiLetters == {"a", "b", "s", "B"}

ReSearchLetter(token) == \E i \in DOMAIN token : token[i] \in AsciiLetters

\* nltk.sent_tokenize: a sentence may end at a full stop that is followed by
\* white space.  Whether Punkt breaks there depends on its trained parameters
\* (abbreviations, initials, the case of the next word), so the model takes
\* the set of boundaries it breaks at as an input: any subset of the candidates.
BreakCandidates(t) ==
    {i \in 1..(Len(t) - 1) : t[i] = "." /\ t[i + 1] = " "}

RECURSIVE SentencesFrom(_, _, _)
SentencesFrom(t, bs, start) ==
    IF start > Len(t) THEN <<>>
    ELSE IF t[start] = " " THEN SentencesFrom(t, bs, start + 1)
    ELSE LET later == {i \in bs : i >= start}
         IN IF later = {} THEN <<SubSeq(t, start, Len(t))>>
            ELSE LET e == CHOOSE i \in later : \A j \in later : i <= j
                 IN <<SubSeq(t, start, e)>> \o SentencesFrom(t, bs, e + 1)

SentTokenize(t, bs) == SentencesFrom(t, bs, 1)

\* nltk.word_tokenize on one sentence (Treebank rules over these characters):
\* words are the runs between blanks, and a full stop that ends the sentence
\* after another character is a word of its own.
RECURSIVE SplitBlanks(_, _, _)
SplitBlanks(s, i, cur) ==
    IF i > Len(s) THEN (IF cur = <<>> THEN <<>> ELSE <<cur>>)
    ELSE IF s[i] = " "
         THEN (IF cur = <<>> THEN <<>> ELSE <<cur>>) \o SplitBlanks(s, i + 1, <<>>)
         ELSE SplitBlanks(s, i + 1, Append(cur, s[i]))

SplitFinalStop(ws) ==
    IF ws = <<>> THEN ws
    ELSE LET w == ws[Len(ws)]
             n == Len(w)
         IN IF n >= 2 /\ w[n] = "." /\ w[n - 1] # "."
            THEN SubSeq(ws, 1, Len(ws) - 1) \o <<SubSeq(w, 1, n - 1), <<".">>>>
            ELSE ws

WordTokenize(sent) == SplitFinalStop(SplitBlanks(sent, 1, <<>>))

\* Lines 29-30: every word of every sentence, in order.
RECURSIVE WordsOf(_)
WordsOf(sents) ==
    IF sents = <<>> THEN <<>>
    ELSE WordTokenize(Head(sents)) \o WordsOf(Tail(sents))

\* Lines 32-34: the loop that appends the tokens holding a letter.
RECURSIVE FilterTokensDedup(_, _)
FilterTokensDedup(toks, filtered) ==
    IF toks = <<>> THEN filtered
    ELSE LET t == Head(toks)
             seen == \E i \in DOMAIN filtered : filtered[i] = t
         IN FilterTokensDedup(Tail(toks),
                IF ReSearchLetter(t) /\ ~seen THEN Append(filtered, t) ELSE filtered)

RECURSIVE FilterTokens(_, _)
FilterTokens(toks, filtered) ==
    IF toks = <<>> THEN filtered
    ELSE FilterTokens(Tail(toks),
            IF ReSearchLetter(Head(toks)) THEN Append(filtered, Head(toks))
            ELSE filtered)

Words(t, bs) == WordsOf(SentTokenize(t, bs))

tokenize(t, bs) ==
    LET toks == [i \in DOMAIN Words(t, bs) |-> LowerWord(Words(t, bs)[i])]
    IN FilterTokens(toks, <<>>)

RECURSIVE TextsUpTo(_)
TextsUpTo(n) ==
    IF n = 0 THEN {<<>>}
    ELSE LET shorter == TextsUpTo(n - 1)
         IN shorter \cup {Append(t, c) : t \in {s \in shorter : Len(s) = n - 1}, c \in Chars}

Texts == TextsUpTo(MaxLen)

(***************************************************************************)
(* The working directory and the record of a ClusterMaker call.            *)
(***************************************************************************)
\* The artifacts the code names (lines 116-117, 172-174, 254, 263-264), and
\* one more path a caller may pass as tfidf_path; the code never writes it.
FileNames == {"tfidf.pkl", "features.pkl", "layer1_kmodel.pkl", "centers.pkl",
              "layer2_kmodel.pkl", "hac.pkl", "merges.pkl", "children.pkl",
              "precomputed.pkl"}

NoFiles == [f \in FileNames |-> None]

\* What the model keeps of one call: the arguments, and per step of the
\* method what it produced.  status is "ok" or the exception that left it.
NoCall ==
    [op |-> "none", tfidf_path |-> None, n_clusters |-> 0, n_dimensions |-> None,
     verbose |-> FALSE, status |-> "ok",
     extracted |-> FALSE,    \* extract_tfidf ran in this call
     at_path |-> None,       \* the artifact at tfidf_path when the call began
     matrix |-> None,        \* the Tf/Idf matrix computed or loaded
     lsa |-> "skipped",      \* "skipped", "done" or "error"
     clustered |-> None,     \* the matrix given to the clustering
     layer1 |-> None, layer2 |-> None,
     features |-> None,      \* the feature list loaded for the report
     labelled |-> None,      \* the columns of the centroids it labelled
     hac_model |-> None, merges |-> None]

TokInit ==
    /\ text \in Texts
    /\ breaks \in SUBSET BreakCandidates(text)
    /\ tokens = None
    /\ files = NoFiles
    /\ call = NoCall
    /\ CorpusIdle

Tokenize ==
    /\ tokens = None
    /\ tokens' = Some(tokenize(text, breaks))
    /\ UNCHANGED <<text, breaks, files, call, corpvars>>

TokNext == Tokenize

SpecTok == TokInit /\ [][TokNext]_vars

(***************************************************************************)
(* C6 (as amended).  tokenize returns the lower-cased words in their       *)
(* original order with repeats kept, keeping exactly the words that hold   *)
(* at least one ASCII letter (a-z, A-Z); the output is never longer than   *)
(* the word sequence, and the empty string yields the empty list.          *)
(***************************************************************************)
LoweredWords == [i \in DOMAIN Words(text, breaks) |-> LowerWord(Words(text, breaks)[i])]

HoldsAsciiLetter(w) == \E i \in DOMAIN w : w[i] \in {"a", "b"}

HoldsLetter(w) == \E i \in DOMAIN w : w[i] \in {"a", "b", "omega"}

MinDf == 2             \* min_df=2
MaxDfNum == 1          \* max_df=0.5
MaxDfDen == 2
MaxFeatures == 10000   \* max_features=10000
Layer1Clusters == 100  \* KMeans(n_clusters=100, ...)
TopTerms == 10         \* order_centroids[i, :10]

\* TfidfVectorizer.fit_transform, line 111.  It raises ValueError when
\* max_df * n_docs < min_df and when no term survives the pruning.
Vectorize(corpus) ==
    IF corpus.docs * MaxDfNum < MinDf * MaxDfDen \/ corpus.feats = 0
    THEN None
    ELSE Some([rows |-> corpus.docs,
               cols |-> Min(corpus.feats, MaxFeatures),
               zero |-> corpus.zero])

\* Lines 105-118.  interrupted: the run is stopped between the two dumps of
\* lines 116 and 117 (the process is killed, or interrupted from the
\* keyboard), after tfidf.pkl is written and before features.pkl is opened.
ExtractTfidf(fs, corpus, interrupted) ==
    LET m == Vectorize(corpus)
    IN IF m = None
       THEN [status |-> "ValueError", matrix |-> None, files |-> fs]
       ELSE IF interrupted
       THEN [status |-> "KeyboardInterrupt", matrix |-> None,
             files |-> [fs EXCEPT !["tfidf.pkl"] = m]]
       ELSE [status |-> "ok", matrix |-> m,
             files |-> [fs EXCEPT !["tfidf.pkl"] = m,
                                  !["features.pkl"] = Some([len |-> m[1].cols])]]

\* Lines 142-149 and 223-230: compute the matrix, or load it.  The load
\* opens 'tfidf.pkl' whatever tfidf_path names.
LoadOrExtract(fs, corpus, tfidf_path, interrupted) ==
    IF tfidf_path = None THEN ExtractTfidf(fs, corpus, interrupted)
    ELSE IF fs["tfidf.pkl"] = None
    THEN [status |-> "FileNotFoundError", matrix |-> None, files |-> fs]
    ELSE [status |-> "ok", matrix |-> fs["tfidf.pkl"], files |-> fs]

\* Lines 151-159 and 232-241: latent semantic analysis.  TruncatedSVD
\* (algorithm 'randomized') raises ValueError when n_components >= n_features
\* and checks nothing against the number of rows; the factorization of an
\* n-row matrix has at most n components, so the result has
\* min(n_components, n_rows) columns.  Normalizer leaves a zero row zero.
Lsa(n_dimensions, m) ==
    IF n_dimensions = None THEN [status |-> "skipped", matrix |-> Some(m)]
    ELSE IF n_dimensions[1] >= m.cols THEN [status |-> "error", matrix |-> None]
    ELSE [status |-> "done",
          matrix |-> Some([m EXCEPT !.cols = Min(n_dimensions[1], m.rows)])]

(***************************************************************************)
(* ClusterMaker.kmeans (lines 120-195).                                    *)
(***************************************************************************)
\* The label KMeans gives sample i: the nearest of its n_clusters centres.
\* Which one depends on the data and on the random state; the model draws
\* the random state from 0..MaxSeed and takes one labelling per state.
Label(seed, i, n_clusters) == (i * (seed + 1) + seed) % n_clusters

\* KMeans(n_clusters, ...).fit(X): ValueError when X has fewer rows than
\* n_clusters; else n_clusters centres in the space of X and one label in
\* 0..n_clusters-1 per row of X.
KMeansFit(X, n_clusters, seed) ==
    IF X.rows < n_clusters THEN None
    ELSE Some([n_clusters |-> n_clusters,
               labels_ |-> [i \in 1..X.rows |-> Label(seed, i, n_clusters)],
               cluster_centers_ |-> [rows |-> n_clusters, cols |-> X.cols, zero |-> 0]])

\* Lines 163-170 with the second model built like the first.
FitLayersSameCount(X, n_clusters, seed) ==
    LET layer1 == KMeansFit(X, Layer1Clusters, seed)
    IN [layer1 |-> layer1,
        layer2 |-> IF layer1 = None THEN None
                   ELSE KMeansFit(layer1[1].cluster_centers_, Layer1Clusters, seed)]

\* Lines 163-170: layer 1 on the matrix, layer 2 on the centres of layer 1.
FitLayers(X, n_clusters, seed) ==
    LET layer1 == KMeansFit(X, Layer1Clusters, seed)
    IN [layer1 |-> layer1,
        layer2 |-> IF layer1 = None THEN None
                   ELSE KMeansFit(layer1[1].cluster_centers_, n_clusters, seed)]

\* Lines 178-192: the top terms of each final centroid.  The centroids have
\* the columns of the Tf/Idf matrix (after inverse_transform when LSA ran);
\* the TopTerms heaviest columns of each are looked up in the feature list of
\* features.pkl.  With at most TopTerms columns every column is looked up.
Report(fs, n_dimensions, tfidf, layer2) ==
    LET cols == IF n_dimensions # None THEN tfidf.cols
                ELSE layer2.cluster_centers_.cols
        features == fs["features.pkl"]
        looked == 0..(Min(cols, TopTerms) - 1)
    IN IF features = None
       THEN [status |-> "FileNotFoundError", features |-> None, labelled |-> None]
       ELSE IF \E ind \in looked : ind >= features[1].len
       THEN [status |-> "IndexError", features |-> features, labelled |-> None]
       ELSE [status |-> "ok", features |-> features, labelled |-> Some(cols)]

KmeansCall(fs, corpus, tfidf_path, verbose, n_clusters, n_dimensions, seed, interrupted) ==
    LET c0 == [NoCall EXCEPT !.op = "kmeans", !.tfidf_path = tfidf_path,
                             !.n_clusters = n_clusters, !.n_dimensions = n_dimensions,
                             !.verbose = verbose,
                             !.extracted = (tfidf_path = None),
                             !.at_path = IF tfidf_path = None THEN None
                                         ELSE fs[tfidf_path[1]]]
        ld == LoadOrExtract(fs, corpus, tfidf_path, interrupted)
    IN IF ld.status # "ok"
       THEN [files |-> ld.files, call |-> [c0 EXCEPT !.status = ld.status]]
       ELSE
       LET red == Lsa(n_dimensions, ld.matrix[1])
           c1 == [c0 EXCEPT !.matrix = ld.matrix, !.lsa = red.status]
       IN IF red.status = "error"
          THEN [files |-> ld.files, call |-> [c1 EXCEPT !.status = "ValueError"]]
          ELSE
          LET fit == FitLayers(red.matrix[1], n_clusters, seed)
              c2 == [c1 EXCEPT !.clustered = red.matrix,
                               !.layer1 = fit.layer1, !.layer2 = fit.layer2]
          IN IF fit.layer2 = None
             THEN [files |-> ld.files, call |-> [c2 EXCEPT !.status = "ValueError"]]
             ELSE
             LET dumped == [ld.files EXCEPT
                               !["layer1_kmodel.pkl"] = fit.layer1,
                               !["centers.pkl"] = Some(fit.layer1[1].cluster_centers_),
                               !["layer2_kmodel.pkl"] = fit.layer2]
                 rep == Report(dumped, n_dimensions, ld.matrix[1], fit.layer2[1])
             IN IF ~verbose THEN [files |-> dumped, call |-> c2]
                ELSE [files |-> dumped,
                      call |-> [c2 EXCEPT !.status = rep.status,
                                          !.features = rep.features,
                                          !.labelled = rep.labelled]]

(***************************************************************************)
(* The arguments the model gives the calls.                                *)
(***************************************************************************)
Paths == {Some("tfidf.pkl"), Some("precomputed.pkl")}
Seeds == 0..MaxSeed

KDocs == (Layer1Clusters - 1)..(Layer1Clusters + ExtraDocs)
KCorpora == [docs : KDocs, feats : 0..MaxFeats, zero : {0}]
KClusters == {1, 2, Layer1Clusters, Layer1Clusters + 1}
KDims == {None} \cup {Some(d) : d \in 1..(MaxFeats - 1)}

\* The call record of a standalone extraction (the extract_tfidf command).
ExtractCall(fs, corpus, interrupted) ==
    LET r == ExtractTfidf(fs, corpus, interrupted)
    IN [files |-> r.files,
        call |-> [NoCall EXCEPT !.op = "extract_tfidf", !.status = r.status,
                                !.extracted = TRUE, !.matrix = r.matrix]]

\* One behaviour is any number of extraction runs followed by at most one
\* clustering call: no code reads a clustering artifact back, so a clustering
\* call after another one behaves as after the extractions alone.
Clustered == call.op \in {"kmeans", "hac"}

Init ==
    /\ text = <<>>
    /\ breaks = {}
    /\ tokens = None
    /\ files = NoFiles
    /\ call = NoCall
    /\ CorpusIdle

Extract(corpora) ==
    /\ ~Clustered
    /\ \E corpus \in corpora, interrupted \in BOOLEAN :
          LET r == ExtractCall(files, corpus, interrupted)
          IN /\ files' = r.files
             /\ call' = r.call
    /\ UNCHANGED <<text, breaks, tokens, corpvars>>

KExtract == Extract(KCorpora)

KmeansComputing ==
    /\ ~Clustered
    /\ \E corpus \in KCorpora, interrupted \in BOOLEAN, verbose \in BOOLEAN,
          n_clusters \in KClusters, n_dimensions \in KDims, seed \in Seeds :
          LET r == KmeansCall(files, corpus, None, verbose, n_clusters,
                              n_dimensions, seed, interrupted)
          IN /\ files' = r.files
             /\ call' = r.call
    /\ UNCHANGED <<text, breaks, tokens, corpvars>>

KmeansLoading ==
    /\ ~Clustered
    /\ \E tfidf_path \in Paths, verbose \in BOOLEAN,
          n_clusters \in KClusters, n_dimensions \in KDims, seed \in Seeds :
          LET r == KmeansCall(files, [docs |-> 0, feats |-> 0, zero |-> 0],
                              tfidf_path, verbose, n_clusters, n_dimensions,
                              seed, FALSE)
          IN /\ files' = r.files
             /\ call' = r.call
    /\ UNCHANGED <<text, breaks, tokens, corpvars>>

Next == KExtract \/ KmeansComputing \/ KmeansLoading

Spec == Init /\ [][Next]_vars

(***************************************************************************)
(* ClusterMaker.hac (lines 197-271).                                       *)
(***************************************************************************)
\* Line 245: dist = 1 - cosine_similarity(tfidf_matrix), one row and one
\* column per document.  cosine_similarity normalizes the rows, dividing a
\* zero row by 1 instead of by its norm: the similarities of an all-zero
\* document are 0 and its distances 1, and nothing is raised.
CosineDistances(m) == [rows |-> m.rows, cols |-> m.rows, zero |-> 0]

Pairs(active) == {p \in active \X active : p[1] < p[2]}

\* The linkage with a merged node left among the nodes still to merge.
RECURSIVE LinkageKeepingNode(_, _, _)
LinkageKeepingNode(active, node, left) ==
    IF left = 0 THEN {<<>>}
    ELSE UNION {
           {<<p>> \o rest :
               rest \in LinkageKeepingNode((active \ {p[1]}) \cup {node},
                                           node + 1, left - 1)}
           : p \in Pairs(active)}

\* The ward linkage of n samples, as AgglomerativeClustering keeps it in
\* children_: `left` more merges, each of two of the nodes not merged yet, the
\* smaller id first, making the node with the next id.  Which two depends on
\* the distances: the model takes every choice.
RECURSIVE Linkage(_, _, _)
Linkage(active, node, left) ==
    IF left = 0 THEN {<<>>}
    ELSE UNION {
           {<<p>> \o rest :
               rest \in Linkage((active \ {p[1], p[2]}) \cup {node},
                                node + 1, left - 1)}
           : p \in Pairs(active)}

WardTreesKeepingNode(n) == LinkageKeepingNode(0..(n - 1), n, n - 1)

\* Lines 250-252.  Without a connectivity matrix the whole tree is built
\* whatever n_clusters is: children_ has n - 1 rows.
WardTrees(n) == Linkage(0..(n - 1), n, n - 1)

\* AgglomerativeClustering.fit raises ValueError when asked for more clusters
\* than samples (the tree is cut into n_clusters after it is built).
AgglomerativeFit(dist, n_clusters, children) ==
    IF n_clusters > dist.rows THEN None
    ELSE Some([n_clusters |-> n_clusters, n_leaves_ |-> dist.rows,
               children_ |-> children])

\* Lines 260-262 with the number of merges taken for the number of leaves.
MergesFromChildrenCount(children, dist) ==
    [i \in 1..Len(children) |->
        [node_id |-> (i - 1) + Len(children),
         right |-> children[i][1], left |-> children[i][2]]]

\* Lines 259-262: node_id counts the merges from 0.
Merges(children, dist) ==
    [i \in 1..Len(children) |->
        [node_id |-> (i - 1) + dist.rows,
         right |-> children[i][1], left |-> children[i][2]]]

\* The children_ the fit of this call can produce: those of the matrix it
\* loads or computes, when the call gets as far as the fit.
TreesOfCall(fs, corpus, tfidf_path) ==
    LET ld == LoadOrExtract(fs, corpus, tfidf_path, FALSE)
    IN IF ld.status # "ok" THEN {<<>>} ELSE WardTrees(ld.matrix[1].rows)

HacCall(fs, corpus, tfidf_path, verbose, n_clusters, n_dimensions, children, interrupted) ==
    LET c0 == [NoCall EXCEPT !.op = "hac", !.tfidf_path = tfidf_path,
                             !.n_clusters = n_clusters, !.n_dimensions = n_dimensions,
                             !.verbose = verbose,
                             !.extracted = (tfidf_path = None),
                             !.at_path = IF tfidf_path = None THEN None
                                         ELSE fs[tfidf_path[1]]]
        ld == LoadOrExtract(fs, corpus, tfidf_path, interrupted)
    IN IF ld.status # "ok"
       THEN [files |-> ld.files, call |-> [c0 EXCEPT !.status = ld.status]]
       ELSE
       LET red == Lsa(n_dimensions, ld.matrix[1])
           c1 == [c0 EXCEPT !.matrix = ld.matrix, !.lsa = red.status]
       IN IF red.status = "error"
          THEN [files |-> ld.files, call |-> [c1 EXCEPT !.status = "ValueError"]]
          ELSE
          LET dist == CosineDistances(red.matrix[1])
              hac_model == AgglomerativeFit(dist, n_clusters, children)
              c2 == [c1 EXCEPT !.clustered = red.matrix, !.hac_model = hac_model]
          IN IF hac_model = None
             THEN [files |-> ld.files, call |-> [c2 EXCEPT !.status = "ValueError"]]
             ELSE
             LET dumped == [ld.files EXCEPT !["hac.pkl"] = hac_model]
                 merges == Merges(hac_model[1].children_, dist)
             IN IF ~verbose THEN [files |-> dumped, call |-> c2]
                ELSE [files |-> [dumped EXCEPT
                                    !["merges.pkl"] = Some(merges),
                                    !["children.pkl"] = Some(hac_model[1].children_)],
                      call |-> [c2 EXCEPT !.merges = Some(merges)]]

HDocs == (MinDf * MaxDfDen - 1)..MaxHacDocs
HCorpora ==
    {c \in [docs : HDocs, feats : {0, 1, MaxHacDocs + 2}, zero : 0..MaxZero] :
        IF c.feats = 0 THEN c.zero = 0 ELSE c.zero <= c.docs - MinDf}
HClusters == {1, 2, MaxHacDocs + 1}
HDims == {None, Some(1), Some(MaxHacDocs + 1)}

HExtract == Extract(HCorpora)

HacComputing ==
    /\ ~Clustered
    /\ \E corpus \in HCorpora, interrupted \in BOOLEAN, verbose \in BOOLEAN,
          n_clusters \in HClusters, n_dimensions \in HDims :
          \E children \in TreesOfCall(files, corpus, None) :
             LET r == HacCall(files, corpus, None, verbose, n_clusters,
                              n_dimensions, children, interrupted)
             IN /\ files' = r.files
                /\ call' = r.call
    /\ UNCHANGED <<text, breaks, tokens, corpvars>>

HacLoading ==
    /\ ~Clustered
    /\ \E tfidf_path \in Paths, verbose \in BOOLEAN,
          n_clusters \in HClusters, n_dimensions \in HDims :
          \E children \in TreesOfCall(files, [docs |-> 0, feats |-> 0, zero |-> 0],
                                      tfidf_path) :
             LET r == HacCall(files, [docs |-> 0, feats |-> 0, zero |-> 0],
                              tfidf_path, verbose, n_clusters, n_dimensions,
                              children, FALSE)
             IN /\ files' = r.files
                /\ call' = r.call
    /\ UNCHANGED <<text, breaks, tokens, corpvars>>

HacNext == HExtract \/ HacComputing \/ HacLoading

SpecHac == Init /\ [][HacNext]_vars

\* The model the call returned: layer2_kmodel on a normal return (line 195).
Returned == IF call.status = "ok" THEN call.layer2 ELSE None

(***************************************************************************)
(* C1.  The first k-means layer runs with min(100, n_documents) clusters   *)
(* and produces exactly that many centroids, for every matrix that         *)
(* reaches the clustering step.                                            *)
(***************************************************************************)
C1_Layer1CountIsMin ==
    (call.op = "kmeans" /\ call.clustered # None) =>
        /\ call.layer1 # None
        /\ call.layer1[1].n_clusters = Min(Layer1Clusters, call.clustered[1].rows)
        /\ call.layer1[1].cluster_centers_.rows
               = Min(Layer1Clusters, call.clustered[1].rows)

(***************************************************************************)
(* C2.  Two-layer k-means rejects every k >= n_documents: the call fails   *)
(* with the parameter error and returns no cluster model.                  *)
(***************************************************************************)
C2_RejectsLargeK ==
    (call.op = "kmeans" /\ call.clustered # None
         /\ call.n_clusters >= call.clustered[1].rows) =>
        /\ call.status = "ValueError"
        /\ Returned = None

(***************************************************************************)
(* C3.  After two-layer k-means every original document has a final label  *)
(* in 0..k-1: the layer-2 label of the layer-1 cluster the persisted       *)
(* layer-1 model assigns it to; for k = 1 all documents get the same label.*)
(***************************************************************************)
FinalLabel(d) ==
    call.layer2[1].labels_[files["layer1_kmodel.pkl"][1].labels_[d] + 1]

C7_ClustersArtifactAtPath ==
    (call.op \in {"kmeans", "hac"} /\ call.tfidf_path # None) =>
        /\ ~call.extracted
        /\ call.matrix # None => call.matrix = call.at_path
        /\ call.at_path = None => call.status = "FileNotFoundError"

(***************************************************************************)
(* C8.  Whenever a stage loads the feature list to label the columns of    *)
(* the centroids, its length equals the column count, or else the load     *)
(* fails instead of the pair being used.                                   *)
(***************************************************************************)
C8_FeaturePairConsistent ==
    (call.op \in {"kmeans", "hac"} /\ call.features # None) =>
        \/ call.features[1].len = call.matrix[1].cols
        \/ call.status # "ok"

(***************************************************************************)
(* C4.  In the HAC merge list the i-th event (from 0) has node id          *)
(* n_documents + i, both its children are leaves or nodes of strictly      *)
(* earlier events, and the last event's node is the root: it is nobody's   *)
(* child and every other node is the child of a later event.               *)
(***************************************************************************)
ChildIds(merges) ==
    {merges[i].left : i \in DOMAIN merges} \cup {merges[i].right : i \in DOMAIN merges}

C5_MergeCountAndNoReuse ==
    (call.op = "hac" /\ call.merges # None /\ call.n_clusters = 1) =>
        LET merges == call.merges[1]
            n == call.matrix[1].rows
        IN /\ Len(merges) = n - 1
           /\ \A i \in DOMAIN merges : merges[i].left # merges[i].right
           /\ \A i, j \in DOMAIN merges :
                 i # j => {merges[i].left, merges[i].right}
                              \cap {merges[j].left, merges[j].right} = {}

\* C5 witness: a completed run (k = 1) whose list merges two earlier merge
\* results with each other.
C5_Witness ==
    /\ call.op = "hac"
    /\ call.merges # None
    /\ call.n_clusters = 1
    /\ \E i \in DOMAIN call.merges[1] :
          /\ call.merges[1][i].right >= call.matrix[1].rows
          /\ call.merges[1][i].left >= call.matrix[1].rows

(***************************************************************************)
(* C9.  The dimensionality reduction fails for every target_dims at or     *)
(* above min(n_documents, n_features): it is never run on such a value     *)
(* and never yields another dimensionality.                                *)
(***************************************************************************)
C9_RejectsLargeDims ==
    (call.op \in {"kmeans", "hac"} /\ call.matrix # None
         /\ call.n_dimensions # None
         /\ call.n_dimensions[1] >= Min(call.matrix[1].rows, call.matrix[1].cols)) =>
        /\ call.lsa = "error"
        /\ call.status = "ValueError"

(***************************************************************************)
(* C10.  HAC on a matrix with an all-zero document row fails: it computes  *)
(* no distance matrix and no merge tree that include that row.             *)
(***************************************************************************)
C10_RejectsZeroRow ==
    (call.op = "hac" /\ call.matrix # None /\ call.matrix[1].zero > 0) =>
        /\ call.status # "ok"
        /\ call.hac_model = None
        /\ call.merges = None

(***************************************************************************)
(* Corpus.get_vocabulary (toolset.py 124-144), with stem (41-44) and       *)
(* document_generator (116-122).  The tokenize it calls (toolset.py 29-39) *)
(* has the same text as the tokenize of clustering.py modelled above.      *)
(***************************************************************************)
DocPrefix == 2000    \* document_file_content.read()[:2000]

\* Line 122: a document is the first DocPrefix characters of its file.
ReadDocument(t) == SubSeq(t, 1, Min(Len(t), DocPrefix))

\* SnowballStemmer('english').stem on a lower-cased word of the letters a, b,
\* s and digits.  A word of at most two characters is returned as it is.
\* Of the suffix rules only step 1a applies to such words: a final "ss" stays,
\* and a final "s" is deleted when a vowel stands before the letter that
\* precedes it ("abs" -> "ab", "bas" -> "bas").
SnowballStem(w) ==
    LET n == Len(w)
    IN IF n <= 2 THEN w
       ELSE IF w[n] = "s" /\ w[n - 1] # "s" /\ \E i \in 1..(n - 2) : w[i] = "a"
       THEN SubSeq(w, 1, n - 1)
       ELSE w

\* Lines 41-44: stem(tokens).
stem(toks) == [i \in DOMAIN toks |-> SnowballStem(toks[i])]

\* Every list that holds each element of S once: the orders list(set(...))
\* can return.
RECURSIVE Orders(_)
Orders(S) ==
    IF S = {} THEN {<<>>}
    ELSE UNION {{<<x>> \o rest : rest \in Orders(S \ {x})} : x \in S}

\* Lines 134-136 without the cast of line 138: the tokens of the documents
\* one after the other.
RECURSIVE AllTokens(_)
AllTokens(docs) ==
    IF docs = <<>> THEN <<>>
    ELSE tokenize(ReadDocument(Head(docs)), {}) \o AllTokens(Tail(docs))

TokenListsNoDedup(docs) == {AllTokens(docs)}

\* Lines 134-138: the set of the tokens seen so far, after each document.
\* The documents of the model hold no full stop: one sentence each.
RECURSIVE TokenSet(_, _)
TokenSet(docs, seen) ==
    IF docs = <<>> THEN seen
    ELSE LET document_tokens == tokenize(ReadDocument(Head(docs)), {})
         IN TokenSet(Tail(docs),
                     seen \cup {document_tokens[i] : i \in DOMAIN document_tokens})

\* The values vocabulary_tokenized can have after the loop of lines 134-138.
TokenLists(docs) == Orders(TokenSet(docs, {}))

\* Lines 139-142: pd.Series(vocabulary_tokenized, index=vocabulary_stemmed),
\* one entry per token, labelled by its stem.  A Series takes equal labels.
Series(values, index) ==
    [i \in DOMAIN values |-> [index |-> index[i], value |-> values[i]]]

\* The words of the documents of the model: "aB", "aBs", "Bas" and "7".
VocWords == {<<"a", "B">>, <<"a", "B", "s">>, <<"B", "a", "s">>, <<"7">>}

RECURSIVE WordListsUpTo(_)
WordListsUpTo(n) ==
    IF n = 0 THEN {<<>>}
    ELSE LET shorter == WordListsUpTo(n - 1)
         IN shorter \cup {Append(l, w) : l \in {x \in shorter : Len(x) = n - 1},
                                         w \in VocWords}

\* The text of a document: its words with one blank between them.
RECURSIVE JoinWords(_)
JoinWords(l) ==
    IF l = <<>> THEN <<>>
    ELSE IF Len(l) = 1 THEN l[1]
    ELSE l[1] \o <<" ">> \o JoinWords(Tail(l))

\* The corpora of at most d documents and w words.
RECURSIVE CorporaUpTo(_, _)
CorporaUpTo(d, w) ==
    IF d = 0 THEN {<<>>}
    ELSE {<<>>} \cup
         UNION {{<<JoinWords(l)>> \o rest : rest \in CorporaUpTo(d - 1, w - Len(l))}
                : l \in WordListsUpTo(w)}

VocabInit ==
    /\ text = <<>>
    /\ breaks = {}
    /\ tokens = None
    /\ files = NoFiles
    /\ call = NoCall
    /\ documents \in CorporaUpTo(MaxCorpusDocs, MaxCorpusWords)
    /\ vocabulary = None
    /\ dump = <<>>
    /\ sub_size = None
    /\ formatted = None

GetVocabulary ==
    /\ vocabulary = None
    /\ \E vocabulary_tokenized \in TokenLists(documents) :
          vocabulary' = Some(Series(vocabulary_tokenized, stem(vocabulary_tokenized)))
    /\ UNCHANGED <<text, breaks, tokens, files, call, documents, dump, sub_size,
                   formatted>>

VocabNext == GetVocabulary

SpecVocab == VocabInit /\ [][VocabNext]_vars

\* The tokens of the corpus: those of each of its documents.
CorpusTokens ==
    UNION {{tokenize(ReadDocument(documents[d]), {})[i]
               : i \in DOMAIN tokenize(ReadDocument(documents[d]), {})}
           : d \in DOMAIN documents}

(***************************************************************************)
(* C11 (as amended).  The vocabulary returned by get_vocabulary has one    *)
(* entry per distinct token of the corpus, keyed by the stem of that       *)
(* token: a stem occurs as a key once for each distinct token that reduces *)
(* to it, and every token of the corpus has its stem among the keys.       *)
(***************************************************************************)
C11_OneEntryPerToken ==
    vocabulary # None =>
        LET v == vocabulary[1]
        IN /\ {v[i].value : i \in DOMAIN v} = CorpusTokens
           /\ \A i, j \in DOMAIN v : v[i].value = v[j].value => i = j
           /\ \A i \in DOMAIN v : v[i].index = SnowballStem(v[i].value)
           /\ \A t \in CorpusTokens :
                 Cardinality({i \in DOMAIN v : v[i].index = SnowballStem(t)})
                    = Cardinality({u \in CorpusTokens : SnowballStem(u) = SnowballStem(t)})

\* C11 witness: a vocabulary in which two distinct tokens carry the same stem.
C11_Witness ==
    /\ vocabulary # None
    /\ \E i, j \in DOMAIN vocabulary[1] :
          /\ vocabulary[1][i].value # vocabulary[1][j].value
          /\ vocabulary[1][i].index = vocabulary[1][j].index

\* C11 as stated: each stem occurs as a key exactly once, also when several
\* distinct tokens reduce to it, and every token has its stem among the keys.
C11_Original ==
    vocabulary # None =>
        LET v == vocabulary[1]
        IN /\ \A t \in CorpusTokens :
                 Cardinality({i \in DOMAIN v : v[i].index = SnowballStem(t)}) = 1
           /\ \A i, j \in DOMAIN v : v[i].index = v[j].index => i = j

(***************************************************************************)
(* Corpus.format (toolset.py 72-114).  A dump is the list of its folders   *)
(* as os.listdir gives them, a folder the list of its files, a file the    *)
(* number of <doc> elements it holds.  A written file is named by its      *)
(* folder, its document file and the index i of the document in it.        *)
(***************************************************************************)
\* Lines 104-114: the loop over the documents of one file, from index i.  The
\* document is written and counted before sub_size is looked at.
RECURSIVE FormatDocs(_, _, _, _, _, _)
FormatDocs(st, sub, document_folder, document_file, i, n) ==
    IF i >= n THEN st
    ELSE LET n_docs == st.n_docs + 1
             written == Append(st.written, <<document_folder, document_file, i>>)
         IN IF sub # None /\ n_docs >= sub[1]
            THEN [written |-> written, n_docs |-> n_docs, returned |-> TRUE]
            ELSE FormatDocs([written |-> written, n_docs |-> n_docs, returned |-> FALSE],
                            sub, document_folder, document_file, i + 1, n)

\* Lines 83-114: the loop over the files of one folder, from file d.
RECURSIVE FormatFiles(_, _, _, _, _)
FormatFiles(st, sub, document_folder, folder, d) ==
    IF st.returned \/ d > Len(folder) THEN st
    ELSE FormatFiles(FormatDocs(st, sub, document_folder, d, 0, folder[d]),
                     sub, document_folder, folder, d + 1)

\* Lines 81-114: the loop over the folders of the dump, from folder f.
RECURSIVE FormatFolders(_, _, _, _)
FormatFolders(st, sub, corpus, f) ==
    IF st.returned \/ f > Len(corpus) THEN st
    ELSE FormatFolders(FormatFiles(st, sub, f, corpus[f], 1), sub, corpus, f + 1)

\* Lines 72-114: the document files format leaves in the formatted directory,
\* which it empties first (lines 76-78) and fills starting at n_docs = 0.
FormatWrites(corpus, sub) ==
    FormatFolders([written |-> <<>>, n_docs |-> 0, returned |-> FALSE],
                  sub, corpus, 1).written

\* The sequences of at most n elements of S.
RECURSIVE SeqsUpTo(_, _)
SeqsUpTo(S, n) ==
    IF n = 0 THEN {<<>>}
    ELSE LET shorter == SeqsUpTo(S, n - 1)
         IN shorter \cup {Append(q, x) : q \in {y \in shorter : Len(y) = n - 1},
                                         x \in S}

Dumps == SeqsUpTo(SeqsUpTo(0..MaxFileDocs, MaxFiles), MaxFolders)

\* format_corpus (lines 234-245): --sub_size is an int, or absent.
SubSizes == {None} \cup {Some(k) : k \in 0..MaxSub}

FormatInit ==
    /\ text = <<>>
    /\ breaks = {}
    /\ tokens = None
    /\ files = NoFiles
    /\ call = NoCall
    /\ documents = <<>>
    /\ vocabulary = None
    /\ dump \in Dumps
    /\ sub_size \in SubSizes
    /\ formatted = None

Format ==
    /\ formatted = None
    /\ formatted' = Some(FormatWrites(dump, sub_size))
    /\ UNCHANGED <<text, breaks, tokens, files, call, documents, vocabulary, dump,
                   sub_size>>

FormatNext == Format

SpecFormat == FormatInit /\ [][FormatNext]_vars

\* The number of documents of a dump.
RECURSIVE SumSeq(_)
SumSeq(q) == IF q = <<>> THEN 0 ELSE Head(q) + SumSeq(Tail(q))

TotalDocs(corpus) == SumSeq([f \in DOMAIN corpus |-> SumSeq(corpus[f])])

(***************************************************************************)
(* C12.  format called with an integer sub_size >= 0 writes exactly        *)
(* min(sub_size, number of documents of the dump) document files, none     *)
(* for sub_size = 0; with sub_size = None it writes every document.        *)
(***************************************************************************)
C12_FormatWritesMin ==
    formatted # None =>
        Len(formatted[1]) = IF sub_size = None THEN TotalDocs(dump)
                            ELSE Min(sub_size[1], TotalDocs(dump))

====
